---------------------------- MODULE Spec2Model ----------------------------
(***************************************************************************)
(* Model of the mesh ingestion pipeline of the print previewer:            *)
(* src/src/components/ModelViewer.tsx (decode, normalise, rotation         *)
(* re-bake) and the rotation state and the estimate effect of              *)
(* src/src/components/PrintPreviewModal.tsx.                               *)
(*                                                                         *)
(* Numbers.  Coordinates are floats in the code.  The model computes with  *)
(* exact rationals: a geometry is a list of integer vertex triples over    *)
(* one common positive denominator `den`, kept in lowest terms, so that    *)
(* equal geometries are equal values.  Angles are whole numbers of         *)
(* quarter turns (the buttons only ever add Math.PI / 2), whose sine and   *)
(* cosine are exactly -1, 0 or 1.  The one rounding in the model is that   *)
(* of view.setFloat32 in the STL encoder, on whole-number coordinates;     *)
(* the rounding error of float arithmetic is outside the model, and NaN    *)
(* and infinite coordinates are too.                                       *)
(* The normal attribute is decoded by parseSTL but not carried through     *)
(* the normaliser: no operation on positions reads it.                     *)
(*                                                                         *)
(* ModelViewer.tsx holds two variants of the component one after the       *)
(* other; the model is of the first (lines 1-322), the one with its own    *)
(* parseOBJ and convert3MFToSTL.                                           *)
(***************************************************************************)
EXTENDS Integers, Sequences, FiniteSets, TLC

---------------------------------------------------------------------------
(* Bounds of the model *)

\* loads that may be suspended at the same time
MaxLoads == 2
\* rotate-button presses in one behaviour of Spec
MaxPresses == 1
\* rotate-button presses in one behaviour of SpecRotation
MaxTurns == 4
\* face lines of a generated OBJ text
MaxFaceLines == 2
\* triangle elements of a generated 3MF model
MaxTriangles == 3
\* FileReaders of the estimate effect pending at the same time in SpecEstimate
MaxReaders == 2
\* facet records counted by the header of a generated STL buffer
MaxStlFacets == 2

---------------------------------------------------------------------------
(* Arithmetic helpers *)

Abs(x) == IF x < 0 THEN -x ELSE x

Min2(a, b) == IF a <= b THEN a ELSE b

Max2(a, b) == IF a >= b THEN a ELSE b

RECURSIVE Pow2(_)
Pow2(e) == IF e = 0 THEN 1 ELSE 2 * Pow2(e - 1)

RECURSIVE Gcd(_, _)
Gcd(a, b) == IF b = 0 THEN a ELSE Gcd(b, a % b)

RECURSIVE GcdSet(_, _)
\* gcd of g and of every number of the set S
GcdSet(g, S) ==
  IF S = {} \/ g = 1 THEN g
  ELSE LET x == CHOOSE y \in S : TRUE IN GcdSet(Gcd(g, x), S \ {x})

\* gcd of g and of every coordinate of the vertex list p
GcdSeq(g, p) ==
  GcdSet(g, {Abs(p[i][c]) : i \in 1..Len(p), c \in 1..3})

---------------------------------------------------------------------------
(* THREE.BufferGeometry, position attribute only.  den = 0 is the null of   *)
(* useState<THREE.BufferGeometry | null>(null).                             *)

NullGeometry == [den |-> 0, pos |-> <<>>]

\* the same geometry with the denominator in lowest terms
Reduce(g) ==
  LET k == GcdSeq(g.den, g.pos)
  IN  [den |-> g.den \div k,
       pos |-> [i \in 1..Len(g.pos) |->
                 <<g.pos[i][1] \div k, g.pos[i][2] \div k, g.pos[i][3] \div k>>]]

\* a geometry with integer coordinates
MakeGeometry(p) == [den |-> 1, pos |-> p]

\* the least and the greatest of coordinate c over the vertex list p
MinCoord(p, c) ==
  LET values == {p[i][c] : i \in 1..Len(p)}
  IN  CHOOSE m \in values : \A x \in values : m <= x

MaxCoord(p, c) ==
  LET values == {p[i][c] : i \in 1..Len(p)}
  IN  CHOOSE m \in values : \A x \in values : m >= x

\* geom.computeBoundingBox(): numerators of min and max over `den`.  An
\* empty position attribute gives three.js's empty box (min = +Infinity,
\* max = -Infinity), for which getSize and getCenter return (0, 0, 0).
computeBoundingBox(g) ==
  IF g.pos = <<>>
  THEN [empty |-> TRUE, min |-> <<0, 0, 0>>, max |-> <<0, 0, 0>>]
  ELSE [empty |-> FALSE,
        min |-> <<MinCoord(g.pos, 1), MinCoord(g.pos, 2), MinCoord(g.pos, 3)>>,
        max |-> <<MaxCoord(g.pos, 1), MaxCoord(g.pos, 2), MaxCoord(g.pos, 3)>>]

\* box.getSize(): numerators over g.den
getSize(box) ==
  IF box.empty THEN <<0, 0, 0>>
  ELSE <<box.max[1] - box.min[1], box.max[2] - box.min[2], box.max[3] - box.min[3]>>

\* Math.max(size.x, size.y, size.z)
MaxDimensionOf(size) == Max2(size[1], Max2(size[2], size[3]))

\* positionOnPrintBed taking min + max for the centre, not its half
positionOnPrintBedUnhalvedCenter(g) ==
  LET box == computeBoundingBox(g)
  IN  IF box.empty THEN g
      ELSE Reduce([den |-> g.den,
                   pos |-> [i \in 1..Len(g.pos) |->
                     << g.pos[i][1] - (box.min[1] + box.max[1]),
                        g.pos[i][2] - box.min[2],
                        g.pos[i][3] - (box.min[3] + box.max[3]) >>]])

\* geom.translate(-center.x, -box.min.y, -center.z) with center =
\* (min + max) / 2: the halves double the denominator.  Translating an
\* empty position attribute moves nothing.
positionOnPrintBed(g) ==
  LET box == computeBoundingBox(g)
  IN  IF box.empty THEN g
      ELSE Reduce([den |-> 2 * g.den,
                   pos |-> [i \in 1..Len(g.pos) |->
                     << 2 * g.pos[i][1] - (box.min[1] + box.max[1]),
                        2 * g.pos[i][2] - 2 * box.min[2],
                        2 * g.pos[i][3] - (box.min[3] + box.max[3]) >>]])

\* the fit budget of `40 / maxDimension`
TargetMaxDimension == 40

\* Math.max in place of Math.min
ScaleUpBug(m, den) ==
  IF m = 0 THEN <<1, 1>>
  ELSE IF TargetMaxDimension * den > m THEN <<TargetMaxDimension * den, m>>
  ELSE <<1, 1>>

\* const scale = Math.min(40 / maxDimension, 1), as a fraction <<n, d>>,
\* for maxDimension = m / den.  40 / 0 is Infinity, so the minimum is 1.
ScaleFor(m, den) ==
  IF m = 0 THEN <<1, 1>>
  ELSE IF TargetMaxDimension * den < m THEN <<TargetMaxDimension * den, m>>
  ELSE <<1, 1>>

\* loadedGeometry.scale(scale, scale, scale)
ScaleGeometry(g, s) ==
  Reduce([den |-> g.den * s[2],
          pos |-> [i \in 1..Len(g.pos) |->
                    <<g.pos[i][1] * s[1], g.pos[i][2] * s[1], g.pos[i][3] * s[1]>>]])

\* new THREE.BoxGeometry(w, h, d) as a triangle soup: 6 faces of 2
\* triangles, corners at (+-w/2, +-h/2, +-d/2), outward winding.
BoxCorners ==
  << <<1,-1,-1>>, <<1,1,-1>>, <<1,1,1>>, <<1,-1,-1>>, <<1,1,1>>, <<1,-1,1>>,
     <<-1,-1,1>>, <<-1,1,1>>, <<-1,1,-1>>, <<-1,-1,1>>, <<-1,1,-1>>, <<-1,-1,-1>>,
     <<-1,1,-1>>, <<-1,1,1>>, <<1,1,1>>, <<-1,1,-1>>, <<1,1,1>>, <<1,1,-1>>,
     <<-1,-1,1>>, <<-1,-1,-1>>, <<1,-1,-1>>, <<-1,-1,1>>, <<1,-1,-1>>, <<1,-1,1>>,
     <<-1,-1,1>>, <<1,-1,1>>, <<1,1,1>>, <<-1,-1,1>>, <<1,1,1>>, <<-1,1,1>>,
     <<1,-1,-1>>, <<-1,-1,-1>>, <<-1,1,-1>>, <<1,-1,-1>>, <<-1,1,-1>>, <<1,1,-1>> >>

BoxGeometry(w, h, d) ==
  Reduce([den |-> 2,
          pos |-> [i \in 1..Len(BoxCorners) |->
                    <<BoxCorners[i][1] * w, BoxCorners[i][2] * h, BoxCorners[i][3] * d>>]])

\* side of the placeholder cube
PlaceholderSide == 20

---------------------------------------------------------------------------
(* Rotation re-bake: THREE.Euler of quarter turns, order XYZ *)

\* Math.cos(k * Math.PI / 2)
Cos4(k) == CASE k % 4 = 0 -> 1 [] k % 4 = 1 -> 0 [] k % 4 = 2 -> -1 [] OTHER -> 0

\* Math.sin(k * Math.PI / 2)
Sin4(k) == CASE k % 4 = 0 -> 0 [] k % 4 = 1 -> 1 [] k % 4 = 2 -> 0 [] OTHER -> -1

\* rotationMatrix.makeRotationFromEuler(new THREE.Euler(r[0], r[1], r[2])):
\* the rows of the upper 3x3 block for order XYZ (the matrix Rx * Ry * Rz)
makeRotationFromEuler(r) ==
  LET a == Cos4(r[1])  b == Sin4(r[1])
      c == Cos4(r[2])  d == Sin4(r[2])
      e == Cos4(r[3])  f == Sin4(r[3])
  IN  << << c * e,                 -(c * f),              d        >>,
         << a * f + b * e * d,     a * e - b * f * d,     -(b * c) >>,
         << b * f - a * e * d,     b * e + a * f * d,     a * c    >> >>

MatVec(m, v) ==
  << m[1][1] * v[1] + m[1][2] * v[2] + m[1][3] * v[3],
     m[2][1] * v[1] + m[2][2] * v[2] + m[2][3] * v[3],
     m[3][1] * v[1] + m[3][2] * v[2] + m[3][3] * v[3] >>

\* tempGeometry.applyMatrix4(rotationMatrix)
applyMatrix4(g, m) ==
  [den |-> g.den, pos |-> [i \in 1..Len(g.pos) |-> MatVec(m, g.pos[i])]]

\* the rotation effect without its positionOnPrintBed call
RotationEffectNoReposition(g, r) == applyMatrix4(g, makeRotationFromEuler(r))

\* the body of the rotation effect: clone, rotate, reposition; the value
\* assigned to meshRef.current.geometry
RotationEffect(g, r) == positionOnPrintBed(applyMatrix4(g, makeRotationFromEuler(r)))

---------------------------------------------------------------------------
(* Binary STL.  An ArrayBuffer is modelled by its byteLength, the uint32   *)
(* at byte 80 and the 50-byte facet records that follow byte 84; facet i   *)
(* (from 1) occupies bytes 84 + 50(i-1) .. 84 + 50i - 1.  A DataView read  *)
(* of 4 bytes at `offset` throws a RangeError unless                       *)
(* offset + 4 <= byteLength.                                               *)

HeaderBytes == 80

FirstFacetOffset == 84

FacetBytes == 50

InBounds(buffer, offset) == offset + 4 <= buffer.byteLength

\* the facet record a read at `offset` falls in
FacetAt(buffer, offset) == buffer.facets[((offset - FirstFacetOffset) \div FacetBytes) + 1]

Thrown == [ok |-> FALSE, pos |-> <<>>, nrm |-> <<>>]

RECURSIVE parseSTLLoop(_, _, _, _, _)
\* the for-loop of parseSTL: i facets read so far, `offset` the next byte
parseSTLLoop(buffer, i, offset, vertices, normals) ==
  IF i >= buffer.numTriangles
  THEN [ok |-> TRUE, pos |-> vertices, nrm |-> normals]
  ELSE IF ~(InBounds(buffer, offset) /\ InBounds(buffer, offset + 4)
            /\ InBounds(buffer, offset + 8))
  THEN Thrown
  ELSE IF ~(\A j \in 0..2 : \A k \in 0..2 :
              InBounds(buffer, offset + 12 + 12 * j + 4 * k))
  THEN Thrown
  ELSE LET facet == FacetAt(buffer, offset)
       IN  parseSTLLoop(buffer, i + 1, offset + 12 + 36 + 2,
                        vertices \o <<facet.v1, facet.v2, facet.v3>>,
                        normals \o <<facet.normal, facet.normal, facet.normal>>)

\* parseSTL keeping one normal per facet, not one per vertex
parseSTLNormalPerFacet(buffer) ==
  IF ~InBounds(buffer, HeaderBytes) THEN Thrown
  ELSE LET read == parseSTLLoop(buffer, 0, FirstFacetOffset, <<>>, <<>>)
       IN  [ok |-> read.ok, pos |-> read.pos,
            nrm |-> [i \in 1..(Len(read.nrm) \div 3) |-> read.nrm[3 * i]]]

\* parseSTL(buffer): [ok |-> FALSE] stands for the RangeError thrown by
\* dataView.getUint32(80, true) or by a getFloat32 past the end
parseSTL(buffer) ==
  IF ~InBounds(buffer, HeaderBytes) THEN Thrown
  ELSE parseSTLLoop(buffer, 0, FirstFacetOffset, <<>>, <<>>)

---------------------------------------------------------------------------
(* OBJ text.  The text is modelled after text.split('\n') and              *)
(* line.trim().split(/\s+/): a list of lines, each [tag, args]; the        *)
(* arguments of a `v` line are its numbers, those of an `f` line are its   *)
(* references, each the list of its '/'-separated fields; a field is       *)
(* [int |-> TRUE, n |-> k] when parseInt reads k and [int |-> FALSE] when  *)
(* it reads NaN.                                                           *)

\* FaceIndex taking the reference as a 0-based index
FaceIndexZeroBased(ref) ==
  IF ref[1].int THEN [nan |-> FALSE, i |-> ref[1].n] ELSE [nan |-> TRUE, i |-> 0]

\* parseInt(indices[0]) - 1, with [nan |-> TRUE] for NaN
FaceIndex(ref) ==
  IF ref[1].int THEN [nan |-> FALSE, i |-> ref[1].n - 1] ELSE [nan |-> TRUE, i |-> 0]

\* tempVertices[vertexIndex] is undefined, so vertex.x throws a TypeError
Undefined(tempVertices, ix) == ix.nan \/ ix.i < 0 \/ ix.i >= Len(tempVertices)

\* the vertices pushed for one triangle, or a throw
RECURSIVE PushTriangles(_, _)
PushTriangles(tempVertices, indices) ==
  IF indices = <<>> THEN [ok |-> TRUE, pos |-> <<>>]
  ELSE IF Undefined(tempVertices, Head(indices)) THEN [ok |-> FALSE, pos |-> <<>>]
  ELSE LET rest == PushTriangles(tempVertices, Tail(indices))
       IN  IF rest.ok
           THEN [ok |-> TRUE, pos |-> <<tempVertices[Head(indices).i + 1]>> \o rest.pos]
           ELSE rest

RECURSIVE parseOBJLoop(_, _, _)
parseOBJLoop(lines, tempVertices, vertices) ==
  IF lines = <<>> THEN [ok |-> TRUE, pos |-> vertices, nrm |-> <<>>]
  ELSE LET line == Head(lines) IN
    IF line.tag = "v"
    THEN parseOBJLoop(Tail(lines),
                      Append(tempVertices, <<line.args[1], line.args[2], line.args[3]>>),
                      vertices)
    ELSE IF line.tag = "f"
    THEN LET faceVertices == [k \in 1..Len(line.args) |-> FaceIndex(line.args[k])]
             order == IF Len(faceVertices) = 4
                      THEN <<faceVertices[1], faceVertices[2], faceVertices[3],
                             faceVertices[1], faceVertices[3], faceVertices[4]>>
                      ELSE IF Len(faceVertices) = 3 THEN faceVertices
                      ELSE <<>>
             pushed == PushTriangles(tempVertices, order)
         IN  IF pushed.ok
             THEN parseOBJLoop(Tail(lines), tempVertices, vertices \o pushed.pos)
             ELSE Thrown
    ELSE parseOBJLoop(Tail(lines), tempVertices, vertices)

\* parseOBJ(text)
parseOBJ(lines) == parseOBJLoop(lines, <<>>, <<>>)

---------------------------------------------------------------------------
(* 3MF.  The archive is modelled by what the code asks of it: whether      *)
(* JSZip.loadAsync resolves, whether the entry 3D/3dmodel.model exists,    *)
(* and the <vertex> and <triangle> elements of that entry in document      *)
(* order (the attributes after parseFloat / parseInt).                     *)

Cross(u, v) ==
  << u[2] * v[3] - u[3] * v[2], u[3] * v[1] - u[1] * v[3], u[1] * v[2] - u[2] * v[1] >>

Sub(u, v) == << u[1] - v[1], u[2] - v[2], u[3] - v[3] >>

\* vertices[v] is a Vector3 (truthy) exactly for a 0-based index in range
Truthy(vertices, v) == v >= 0 /\ v < Len(vertices)

RECURSIVE KeptBeforeFirstBad(_, _)
KeptBeforeFirstBad(vertex, triangle) ==
  IF triangle = <<>> THEN <<>>
  ELSE IF \A c \in 1..3 : Truthy(vertex, Head(triangle)[c])
       THEN <<Head(triangle)>> \o KeptBeforeFirstBad(vertex, Tail(triangle))
       ELSE <<>>

\* the extraction loop giving up at the first triangle it cannot keep
KeptTrianglesUntilBad(archive) == KeptBeforeFirstBad(archive.vertex, archive.triangle)

\* the triangles kept by the extraction loop
KeptTriangles(archive) ==
  SelectSeq(archive.triangle,
            LAMBDA t : Truthy(archive.vertex, t[1]) /\ Truthy(archive.vertex, t[2])
                       /\ Truthy(archive.vertex, t[3]))

\* significant bits of a float32
MantissaBits == 24

RECURSIVE ExtraBits(_)
\* how many bits the natural number a has beyond MantissaBits
ExtraBits(a) == IF a < Pow2(MantissaBits) THEN 0 ELSE 1 + ExtraBits(a \div 2)

\* view.setFloat32(offset, x, true) of the whole number x: the nearest
\* float32, ties to the even mantissa.  A number of at most 24 significant
\* bits is stored as it is.
Float32(x) ==
  LET a == Abs(x)
      k == ExtraBits(a)
      q == a \div Pow2(k)
      r == a % Pow2(k)
      up == IF 2 * r > Pow2(k) \/ (2 * r = Pow2(k) /\ q % 2 = 1) THEN 1 ELSE 0
      stored == IF k = 0 THEN a ELSE (q + up) * Pow2(k)
  IN  IF x < 0 THEN -stored ELSE stored

Float32Vec(v) == << Float32(v[1]), Float32(v[2]), Float32(v[3]) >>

\* EncodeSTL writing the vertices of each triangle in the order v1, v3, v2
EncodeSTLSwapped(archive) ==
  LET triangles == KeptTriangles(archive)
  IN  [byteLength |-> HeaderBytes + 4 + Len(triangles) * FacetBytes,
       numTriangles |-> Len(triangles),
       facets |-> [i \in 1..Len(triangles) |->
         LET v1 == archive.vertex[triangles[i][1] + 1]
             v2 == archive.vertex[triangles[i][2] + 1]
             v3 == archive.vertex[triangles[i][3] + 1]
         IN  [normal |-> [dir |-> Cross(Sub(v2, v1), Sub(v3, v1)), unit |-> TRUE],
              v1 |-> Float32Vec(v1), v2 |-> Float32Vec(v3), v3 |-> Float32Vec(v2),
              attr |-> 0]]]

\* EncodeSTL allocating 80 + triangles.length * 50 bytes
EncodeSTLShort(archive) ==
  LET triangles == KeptTriangles(archive)
  IN  [byteLength |-> HeaderBytes + Len(triangles) * FacetBytes,
       numTriangles |-> Len(triangles),
       facets |-> [i \in 1..Len(triangles) |->
         LET v1 == archive.vertex[triangles[i][1] + 1]
             v2 == archive.vertex[triangles[i][2] + 1]
             v3 == archive.vertex[triangles[i][3] + 1]
         IN  [normal |-> [dir |-> Cross(Sub(v2, v1), Sub(v3, v1)), unit |-> TRUE],
              v1 |-> Float32Vec(v1), v2 |-> Float32Vec(v2), v3 |-> Float32Vec(v3),
              attr |-> 0]]]

\* the STL buffer written for the kept triangles; a normal is kept as the
\* direction it is the unit vector of
EncodeSTL(archive) ==
  LET triangles == KeptTriangles(archive)
  IN  [byteLength |-> HeaderBytes + 4 + Len(triangles) * FacetBytes,
       numTriangles |-> Len(triangles),
       facets |-> [i \in 1..Len(triangles) |->
         LET v1 == archive.vertex[triangles[i][1] + 1]
             v2 == archive.vertex[triangles[i][2] + 1]
             v3 == archive.vertex[triangles[i][3] + 1]
         IN  [normal |-> [dir |-> Cross(Sub(v2, v1), Sub(v3, v1)), unit |-> TRUE],
              v1 |-> Float32Vec(v1), v2 |-> Float32Vec(v2), v3 |-> Float32Vec(v3),
              attr |-> 0]]]

NoBuffer == [byteLength |-> 0, numTriangles |-> 0, facets |-> <<>>]

\* convert3MFToSTL up to its first await: TRUE when it goes on to
\* modelFile.async('text'), FALSE when it returns null (loadAsync rejected,
\* caught at line 302; or no model entry)
HasModelFile(archive) == archive.zip /\ archive.entry

\* convert3MFToSTL without the `triangles.length === 0` return
convert3MFToSTLNoEmptyCheck(archive) == [null |-> FALSE, buffer |-> EncodeSTL(archive)]

\* convert3MFToSTL after the entry's text arrived: null or the STL buffer
convert3MFToSTL(archive) ==
  IF Len(KeptTriangles(archive)) = 0
  THEN [null |-> TRUE, buffer |-> NoBuffer]
  ELSE [null |-> FALSE, buffer |-> EncodeSTL(archive)]

---------------------------------------------------------------------------
(* The files the user may select.  A File is its name (a list of           *)
(* characters) and its bytes, given as the three views the code takes of   *)
(* them: a DataView (stl), decoded text lines (obj), a zip archive (zip).  *)

Vec(x, y, z) == <<x, y, z>>

Facet(n, a, b, c) ==
  [normal |-> [dir |-> n, unit |-> FALSE], v1 |-> a, v2 |-> b, v3 |-> c, attr |-> 0]

NoArchive == [zip |-> FALSE, entry |-> FALSE, vertex |-> <<>>, triangle |-> <<>>]

StlFile(name, buffer) == [name |-> name, stl |-> buffer, obj |-> <<>>, zip |-> NoArchive]

ObjFile(name, lines) == [name |-> name, stl |-> NoBuffer, obj |-> lines, zip |-> NoArchive]

ZipFile(name, archive) == [name |-> name, stl |-> NoBuffer, obj |-> <<>>, zip |-> archive]

\* a closed tetrahedron of 80 x 60 x 30: larger than the fit budget
Tetrahedron ==
  << Facet(Vec(0, 0, -1), Vec(0, 0, 0), Vec(0, 60, 0), Vec(80, 0, 0)),
     Facet(Vec(0, -1, 0), Vec(0, 0, 0), Vec(80, 0, 0), Vec(0, 0, 30)),
     Facet(Vec(-1, 0, 0), Vec(0, 0, 0), Vec(0, 0, 30), Vec(0, 60, 0)),
     Facet(Vec(3, 4, 8),  Vec(80, 0, 0), Vec(0, 60, 0), Vec(0, 0, 30)) >>

\* one small triangle, off centre and above the bed
SmallTriangle == << Facet(Vec(0, 0, 1), Vec(1, 2, 3), Vec(5, 2, 3), Vec(1, 8, 4)) >>

SampleFiles ==
  << \* 1: a complete binary STL, 84 + 4 * 50 bytes, upper-case extension
     StlFile(<<"p", ".", "S", "T", "L">>,
             [byteLength |-> 284, numTriangles |-> 4, facets |-> Tetrahedron]),
     \* 2: 10 bytes: shorter than the header
     StlFile(<<"t", ".", "s", "t", "l">>,
             [byteLength |-> 10, numTriangles |-> 0, facets |-> <<>>]),
     \* 3: count 1, 132 bytes: the 2 attribute bytes of the last facet missing
     StlFile(<<"c", ".", "s", "t", "l">>,
             [byteLength |-> 132, numTriangles |-> 1, facets |-> SmallTriangle]),
     \* 4: count 2, 154 bytes: cut inside the second facet
     StlFile(<<"m", ".", "s", "t", "l">>,
             [byteLength |-> 154, numTriangles |-> 2,
              facets |-> SmallTriangle \o SmallTriangle]),
     \* 5: count 0, 84 bytes
     StlFile(<<"e", ".", "s", "t", "l">>,
             [byteLength |-> 84, numTriangles |-> 0, facets |-> <<>>]),
     \* 6: an OBJ text with vertices and no face line
     ObjFile(<<"a", ".", "o", "b", "j">>,
             << [tag |-> "#", args |-> <<>>],
                [tag |-> "v", args |-> <<0, 0, 0>>],
                [tag |-> "v", args |-> <<1, 0, 0>>],
                [tag |-> "v", args |-> <<1, 1, 0>>] >>),
     \* 7: a 3MF archive: 4 vertices, 2 valid triangles, 1 naming vertex 99
     ZipFile(<<"x", ".", "3", "m", "f">>,
             [zip |-> TRUE, entry |-> TRUE,
              vertex |-> << Vec(0, 0, 0), Vec(50, 0, 0), Vec(50, 10, 0), Vec(0, 10, 5) >>,
              triangle |-> << <<0, 1, 2>>, <<0, 2, 99>>, <<0, 2, 3>> >>]),
     \* 8: a zip archive with no 3D/3dmodel.model entry
     ZipFile(<<"n", ".", "3", "m", "f">>,
             [zip |-> TRUE, entry |-> FALSE, vertex |-> <<>>, triangle |-> <<>>]),
     \* 9: an extension that is none of stl, obj, 3mf
     ObjFile(<<"r", ".", "t", "x", "t">>, <<>>) >>

SampleIds == 1..Len(SampleFiles)

RECURSIVE Pow(_, _)
Pow(b, e) == IF e = 0 THEN 1 ELSE b * Pow(b, e - 1)

\* digit j (from 1) of k written in base b
Digit(k, b, j) == (k \div Pow(b, j - 1)) % b

\* a reference of a face line: its '/'-separated fields after parseInt
Ref(n) == << [int |-> TRUE, n |-> n] >>

NaNField == [int |-> FALSE, n |-> 0]

\* the lines a generated OBJ text takes its face lines from
FaceLines ==
  << [tag |-> "", args |-> <<>>],                                 \* a blank line
     [tag |-> "f", args |-> <<Ref(1), Ref(2), Ref(3)>>],          \* f 1 2 3
     [tag |-> "f", args |-> <<Ref(1), Ref(2), Ref(3), Ref(4)>>],  \* f 1 2 3 4
     [tag |-> "f", args |-> << <<[int |-> TRUE, n |-> 3], [int |-> TRUE, n |-> 1]>>,
                               <<[int |-> TRUE, n |-> 2], [int |-> TRUE, n |-> 9]>>,
                               <<[int |-> TRUE, n |-> 1], NaNField>> >>],   \* f 3/1 2/9 1/x
     [tag |-> "f", args |-> <<Ref(1), Ref(2)>>],                  \* f 1 2
     [tag |-> "f", args |-> <<Ref(1)>>],                          \* f 1
     [tag |-> "f", args |-> <<Ref(4), Ref(3), Ref(2), Ref(1), Ref(3)>>],  \* f 4 3 2 1 3
     [tag |-> "f", args |-> <<Ref(0), Ref(1), Ref(2)>>],          \* f 0 1 2
     [tag |-> "f", args |-> <<Ref(-1), Ref(1), Ref(2)>>],         \* f -1 1 2
     [tag |-> "f", args |-> <<Ref(1), Ref(2), Ref(9)>>],          \* f 1 2 9
     [tag |-> "f", args |-> <<Ref(1), Ref(2), Ref(3), Ref(5)>>],  \* f 1 2 3 5: v 5 comes later
     [tag |-> "f", args |-> <<Ref(1), Ref(2), <<NaNField>>>>],    \* f 1 2 x
     [tag |-> "f", args |-> <<Ref(9), Ref(1)>>],                  \* f 9 1
     [tag |-> "f", args |-> <<Ref(1), Ref(9), Ref(2), Ref(3), Ref(4)>>] >> \* f 1 9 2 3 4

\* generated OBJ text k: four vertex lines, MaxFaceLines lines of FaceLines,
\* a fifth vertex line
ObjText(k) ==
  << [tag |-> "v", args |-> <<0, 0, 0>>],
     [tag |-> "v", args |-> <<4, 0, 0>>],
     [tag |-> "v", args |-> <<4, 4, 0>>],
     [tag |-> "v", args |-> <<0, 4, 2>>] >>
  \o [j \in 1..MaxFaceLines |-> FaceLines[Digit(k, Len(FaceLines), j) + 1]]
  \o << [tag |-> "v", args |-> <<1, 1, 1>>] >>

ObjTextCount == Pow(Len(FaceLines), MaxFaceLines)

\* the <triangle> elements a generated 3MF model takes its own from;
\* <<>> stands for no element
TriangleElements ==
  << <<>>, <<0, 1, 2>>, <<0, 2, 3>>, <<0, 2, 99>>, <<-1, 1, 2>>, <<1, 4, 2>> >>

\* generated archive k: a model entry with four <vertex> elements (none
\* for the upper half of the range) and up to MaxTriangles <triangle>
\* elements
ArchiveCount == 2 * Pow(Len(TriangleElements), MaxTriangles)

Archive(k) ==
  LET half == Pow(Len(TriangleElements), MaxTriangles)
      elements == [j \in 1..MaxTriangles |->
                    TriangleElements[Digit(k % half, Len(TriangleElements), j) + 1]]
  IN  [zip |-> TRUE, entry |-> TRUE,
       vertex |-> IF k < half
                  THEN << Vec(0, 0, 0), Vec(50, 0, 0), Vec(50, 10, 0), Vec(0, 10, 5) >>
                  ELSE <<>>,
       triangle |-> SelectSeq(elements, LAMBDA t : t # <<>>)]

\* the facet records a generated STL buffer takes its own from: a
\* triangle in the plane z = 0, the same record with other attribute
\* bytes, a triangle off the origin and the same triangle with the
\* opposite winding; <<>> stands for no record
StlFacets ==
  << <<>>,
     Facet(Vec(0, 0, 1), Vec(0, 0, 0), Vec(4, 0, 0), Vec(0, 4, 0)),
     [Facet(Vec(0, 0, 1), Vec(0, 0, 0), Vec(4, 0, 0), Vec(0, 4, 0)) EXCEPT !.attr = 7],
     Facet(Vec(2, 2, 1), Vec(1, 0, 0), Vec(0, 1, 0), Vec(0, 0, 2)),
     Facet(Vec(-2, -2, -1), Vec(1, 0, 0), Vec(0, 0, 2), Vec(0, 1, 0)) >>

\* generated STL buffer k: up to MaxStlFacets facet records, counted by the
\* uint32 at byte 80; one of two 80-byte headers; for the upper half of
\* the range one more record after the counted ones (a buffer longer than
\* 84 + 50 * count)
StlBufferCount == 4 * Pow(Len(StlFacets), MaxStlFacets)

StlBuffer(k) ==
  LET lists == Pow(Len(StlFacets), MaxStlFacets)
      records == SelectSeq([j \in 1..MaxStlFacets |->
                             StlFacets[Digit(k % lists, Len(StlFacets), j) + 1]],
                           LAMBDA r : r # <<>>)
      trailing == IF (k \div lists) % 2 = 1 THEN <<StlFacets[4]>> ELSE <<>>
  IN  [header |-> IF k \div (2 * lists) = 1 THEN "solid" ELSE "",
       byteLength |-> FirstFacetOffset + FacetBytes * (Len(records) + Len(trailing)),
       numTriangles |-> Len(records),
       facets |-> records \o trailing]

\* 3MF models with coordinates of more than 24 significant bits (not
\* float32 values), and of exactly 24 bits; one triangle each
WideCoordinates == <<16777215, 16777216, 16777217, 16777219, -16777217>>

WideArchive(k) ==
  [zip |-> TRUE, entry |-> TRUE,
   vertex |-> << Vec(0, 0, 0), Vec(WideCoordinates[k], 0, 0), Vec(0, 3, 1) >>,
   triangle |-> << <<0, 1, 2>> >>]

\* files for the dispatch on the name: a complete STL buffer, an OBJ text
\* and a 3MF archive, each under names that do and do not give its
\* extension
NamedBuffer == [byteLength |-> 134, numTriangles |-> 1, facets |-> SmallTriangle]

NamedText ==
  << [tag |-> "v", args |-> <<0, 0, 0>>],
     [tag |-> "v", args |-> <<6, 0, 0>>],
     [tag |-> "v", args |-> <<0, 6, 3>>],
     [tag |-> "f", args |-> <<Ref(1), Ref(2), Ref(3)>>] >>

NamedArchive ==
  [zip |-> TRUE, entry |-> TRUE,
   vertex |-> << Vec(0, 0, 0), Vec(8, 0, 0), Vec(0, 8, 2) >>,
   triangle |-> << <<0, 1, 2>> >>]

NamedFiles ==
  <<
     \* two dots
     [name |-> <<"a", ".", "b", ".", "s", "t", "l">>, stl |-> NamedBuffer, obj |-> <<>>, zip |-> NoArchive],
     \* upper case
     [name |-> <<"m", ".", "S", "T", "L">>, stl |-> NamedBuffer, obj |-> <<>>, zip |-> NoArchive],
     \* no dot: pop() gives the whole name
     [name |-> <<"s", "t", "l">>, stl |-> NamedBuffer, obj |-> <<>>, zip |-> NoArchive],
     \* stl is not the last part
     [name |-> <<"s", ".", "s", "t", "l", ".", "t", "x", "t">>, stl |-> NamedBuffer, obj |-> <<>>, zip |-> NoArchive],
     \* empty last part
     [name |-> <<"t", ".">>, stl |-> NamedBuffer, obj |-> <<>>, zip |-> NoArchive],
     \* mixed case
     [name |-> <<"x", ".", "S", "t", "l">>, stl |-> NamedBuffer, obj |-> <<>>, zip |-> NoArchive],
     \* nothing before the dot
     [name |-> <<".", "o", "b", "j">>, stl |-> NoBuffer, obj |-> NamedText, zip |-> NoArchive],
     \* upper case
     [name |-> <<"q", ".", "O", "B", "J">>, stl |-> NoBuffer, obj |-> NamedText, zip |-> NoArchive],
     \* obj is not the last part
     [name |-> <<"o", ".", "o", "b", "j", ".", "b", "a", "k">>, stl |-> NoBuffer, obj |-> NamedText, zip |-> NoArchive],
     \* no dot
     [name |-> <<"o", "b", "j">>, stl |-> NoBuffer, obj |-> NamedText, zip |-> NoArchive],
     \* upper case
     [name |-> <<"k", ".", "3", "M", "F">>, stl |-> NoBuffer, obj |-> <<>>, zip |-> NamedArchive],
     \* 3mf is not the last part
     [name |-> <<"z", ".", "3", "m", "f", ".", "x">>, stl |-> NoBuffer, obj |-> <<>>, zip |-> NamedArchive],
     \* no dot
     [name |-> <<"3", "m", "f">>, stl |-> NoBuffer, obj |-> <<>>, zip |-> NamedArchive],
     \* bytes that are no zip archive: JSZip.loadAsync rejects
     [name |-> <<"b", ".", "3", "m", "f">>, stl |-> NoBuffer, obj |-> <<>>, zip |-> NoArchive] >>

\* every file of the model: the sample files, the generated OBJ texts, the
\* generated 3MF archives, the generated STL buffers, the wide 3MF models,
\* the named files
Files ==
  SampleFiles
  \o [k \in 1..ObjTextCount |-> ObjFile(<<"g", ".", "o", "b", "j">>, ObjText(k - 1))]
  \o [k \in 1..ArchiveCount |-> ZipFile(<<"g", ".", "3", "m", "f">>, Archive(k - 1))]
  \o [k \in 1..StlBufferCount |-> StlFile(<<"g", ".", "s", "t", "l">>, StlBuffer(k - 1))]
  \o [k \in 1..Len(WideCoordinates) |-> ZipFile(<<"w", ".", "3", "m", "f">>, WideArchive(k))]
  \o NamedFiles

FileIds == 1..Len(Files)

ObjTextIds == (Len(SampleFiles) + 1)..(Len(SampleFiles) + ObjTextCount)

ArchiveIds ==
  (Len(SampleFiles) + ObjTextCount + 1)..(Len(SampleFiles) + ObjTextCount + ArchiveCount)

StlBufferIds ==
  (Len(SampleFiles) + ObjTextCount + ArchiveCount + 1)
    ..(Len(SampleFiles) + ObjTextCount + ArchiveCount + StlBufferCount)

WideArchiveIds ==
  (Len(SampleFiles) + ObjTextCount + ArchiveCount + StlBufferCount + 1)
    ..(Len(SampleFiles) + ObjTextCount + ArchiveCount + StlBufferCount
       + Len(WideCoordinates))

NamedIds ==
  (Len(SampleFiles) + ObjTextCount + ArchiveCount + StlBufferCount
   + Len(WideCoordinates) + 1)
    ..(Len(SampleFiles) + ObjTextCount + ArchiveCount + StlBufferCount
       + Len(WideCoordinates) + Len(NamedFiles))

\* no file selected: uploadedFile is null
NoFile == 0

Upper == <<"A", "B", "F", "J", "L", "M", "O", "S", "T", "X">>

Lower == <<"a", "b", "f", "j", "l", "m", "o", "s", "t", "x">>

\* String.prototype.toLowerCase on one character
toLowerCase(c) ==
  IF \E k \in 1..Len(Upper) : Upper[k] = c
  THEN Lower[CHOOSE k \in 1..Len(Upper) : Upper[k] = c]
  ELSE c

RECURSIVE AfterLastDot(_)
\* name.split('.').pop()
AfterLastDot(name) ==
  IF \A k \in 1..Len(name) : name[k] # "." THEN name
  ELSE AfterLastDot(Tail(name))

\* fileExtension without toLowerCase()
fileExtensionCaseSensitive(name) == AfterLastDot(name)

\* file.name.split('.').pop()?.toLowerCase()
fileExtension(name) ==
  LET last == AfterLastDot(name)
  IN  [k \in 1..Len(last) |-> toLowerCase(last[k])]

ExtSTL == <<"s", "t", "l">>

ExtOBJ == <<"o", "b", "j">>

Ext3MF == <<"3", "m", "f">>

---------------------------------------------------------------------------
(* loadModel, between its suspension points *)

\* lines 56-70: what loadModel computes from a non-null loadedGeometry
ScaleAndPosition(g) ==
  LET box == computeBoundingBox(g)
      size == getSize(box)
      maxDimension == MaxDimensionOf(size)
      scale == ScaleFor(maxDimension, g.den)
  IN  [geometry |-> positionOnPrintBed(ScaleGeometry(g, scale)),
       maxDimension |-> <<maxDimension, g.den>>,
       scale |-> scale]

\* lines 75-76: the catch block's geometry
FallbackGeometry ==
  positionOnPrintBed(BoxGeometry(PlaceholderSide, PlaceholderSide, PlaceholderSide))

\* what a load reports when it ends: the geometry it publishes and, for the
\* record, the locals maxDimension and scale (when lines 58-65 ran), whether
\* the catch block ran, and how many times a decoder was called
Completed(loaded, runs) ==
  IF loaded.ok
  THEN LET n == ScaleAndPosition(MakeGeometry(loaded.pos))
       IN  [geometry |-> n.geometry, caught |-> FALSE, scaled |-> TRUE,
            maxDimension |-> n.maxDimension, scale |-> n.scale, decoderRuns |-> runs]
  ELSE [geometry |-> FallbackGeometry, caught |-> TRUE, scaled |-> FALSE,
        maxDimension |-> <<0, 1>>, scale |-> <<1, 1>>, decoderRuns |-> runs]

\* lines 49 and 53: loadedGeometry = new THREE.BoxGeometry(20, 20, 20)
Placeholder ==
  [ok |-> TRUE,
   pos |-> BoxGeometry(PlaceholderSide, PlaceholderSide, PlaceholderSide).pos,
   nrm |-> <<>>]

\* what a load that took the placeholder reports
PlaceholderOutcome == Completed(Placeholder, 0)

\* lines 29-54 for a file that is not 3mf, once its bytes arrived
DecodeBytes(f) ==
  LET ext == fileExtension(Files[f].name)
  IN  IF ext = ExtSTL THEN Completed(parseSTL(Files[f].stl), 1)
      ELSE IF ext = ExtOBJ THEN Completed(parseOBJ(Files[f].obj), 1)
      ELSE PlaceholderOutcome

\* lines 46-50, once convert3MFToSTL returned
DecodeConverted(converted) ==
  IF converted.null THEN PlaceholderOutcome
  ELSE Completed(parseSTL(converted.buffer), 1)

\* The decoders read nothing but the file: what a load of file f reports
\* when it ends is a function of f, tabulated once.
\* BytesOutcome: the load ends after file.arrayBuffer() (not 3mf);
\* ConvertedOutcome: it ends inside or after convert3MFToSTL (3mf)
BytesOutcome ==
  [f \in {g \in FileIds : fileExtension(Files[g].name) # Ext3MF} |-> DecodeBytes(f)]

ConvertedOutcome ==
  [f \in {g \in FileIds : fileExtension(Files[g].name) = Ext3MF} |->
     DecodeConverted(convert3MFToSTL(Files[f].zip))]

---------------------------------------------------------------------------
(* The estimate effect of PrintPreviewModal.  It reads the file again and  *)
(* decodes it with the three.js loaders STLLoader and OBJLoader, which     *)
(* are not part of the repository: STLLoader.parse is taken as its binary  *)
(* reader, which reads the fields parseSTL reads through the same          *)
(* DataView; OBJLoader.parse gives no Mesh child for a text without face   *)
(* line and, for faces of three or four valid references, the triangles    *)
(* parseOBJ gives.  Numbers are exact fractions: dimensions and            *)
(* filamentUsed in tenths (toFixed(1)), the print time in minutes.         *)

RECURSIVE SignedSum(_, _)
\* the sum over the triangles from vertex i on of dot(p1, cross(p2, p3))
SignedSum(p, i) ==
  IF i + 2 > Len(p) THEN 0
  ELSE (p[i][1] * Cross(p[i + 1], p[i + 2])[1]
        + p[i][2] * Cross(p[i + 1], p[i + 2])[2]
        + p[i][3] * Cross(p[i + 1], p[i + 2])[3]) + SignedSum(p, i + 3)

\* computeMeshVolume returning the signed sum
computeMeshVolumeSigned(g) ==
  [num |-> SignedSum(g.pos, 1), den |-> 6 * g.den * g.den * g.den]

\* PrintPreviewModal's computeMeshVolume: Math.abs of the sum of
\* p1.dot(p2.cross(p3)) / 6.0, as the fraction num / den
computeMeshVolume(g) ==
  [num |-> Abs(SignedSum(g.pos, 1)), den |-> 6 * g.den * g.den * g.den]

\* PrintPreviewModal.tsx 38-41, in tenths
filamentTypes == [PETG |-> 10, PLA |-> 12]

Filaments == {"PETG", "PLA"}

\* const density = 1.24, in hundredths
Density == 124

\* const printSpeedFactor = 15
PrintSpeedFactor == 15

\* +(n / d).toFixed(1) for n / d >= 0, in tenths
toFixed1(n, d) ==
  LET tenths == (10 * (n % d)) \div d
      rest == (10 * (n % d)) % d
  IN  10 * (n \div d) + tenths + (IF 2 * rest >= d THEN 1 ELSE 0)

\* Math.round(n / d) for n / d >= 0
Round(n, d) == (n \div d) + (IF 2 * (n % d) >= d THEN 1 ELSE 0)

STLLoaderParse(buffer) == parseSTL(buffer)

OBJLoaderParse(lines) ==
  IF \A j \in 1..Len(lines) : lines[j].tag # "f" THEN Thrown ELSE parseOBJ(lines)

\* lines 63-80: the geometry measured, or a throw
MeasuredGeometry(f) ==
  LET extension == fileExtension(Files[f].name)
  IN  IF extension = ExtSTL THEN STLLoaderParse(Files[f].stl)
      ELSE IF extension = ExtOBJ THEN OBJLoaderParse(Files[f].obj)
      ELSE Thrown

\* Measure with the print speed multiplied by the filament's factor
MeasureSpeedByFilament(g, fil) ==
  LET bbox == computeBoundingBox(g)
      volume == computeMeshVolume(g)
      filamentUsed == toFixed1(volume.num * Density * filamentTypes[fil],
                               volume.den * 1000 * 100 * 10)
      printTimeMin == IF volume.num < 6 * PrintSpeedFactor * volume.den
                      THEN <<6, 1>>
                      ELSE <<10 * volume.num,
                             PrintSpeedFactor * volume.den * filamentTypes[fil]>>
      hours == printTimeMin[1] \div (60 * printTimeMin[2])
      printTime == IF printTimeMin[1] < 60 * printTimeMin[2]
                   THEN <<Round(printTimeMin[1], printTimeMin[2])>>
                   ELSE <<hours,
                          Round(printTimeMin[1] - 60 * hours * printTimeMin[2],
                                printTimeMin[2])>>
      costKES == Round(filamentUsed * printTimeMin[2] + 12 * printTimeMin[1],
                       40 * printTimeMin[2])
  IN  [printTime |-> printTime,
       filamentUsed |-> filamentUsed,
       costKES |-> costKES,
       dimensions |-> IF bbox.empty
                      THEN <<"-Infinity", "-Infinity", "-Infinity">>
                      ELSE [c \in 1..3 |-> toFixed1(bbox.max[c] - bbox.min[c], g.den)]]

\* lines 82-110: the estimates computed from a decoded geometry.  An
\* empty geometry has the empty box, max - min = -Infinity
Measure(g, fil) ==
  LET bbox == computeBoundingBox(g)
      volume == computeMeshVolume(g)
      filamentUsed == toFixed1(volume.num * Density * filamentTypes[fil],
                               volume.den * 1000 * 100 * 10)
      printTimeMin == IF volume.num < 6 * PrintSpeedFactor * volume.den
                      THEN <<6, 1>>
                      ELSE <<volume.num, PrintSpeedFactor * volume.den>>
      hours == printTimeMin[1] \div (60 * printTimeMin[2])
      printTime == IF printTimeMin[1] < 60 * printTimeMin[2]
                   THEN <<Round(printTimeMin[1], printTimeMin[2])>>
                   ELSE <<hours,
                          Round(printTimeMin[1] - 60 * hours * printTimeMin[2],
                                printTimeMin[2])>>
      costKES == Round(filamentUsed * printTimeMin[2] + 12 * printTimeMin[1],
                       40 * printTimeMin[2])
  IN  [printTime |-> printTime,
       filamentUsed |-> filamentUsed,
       costKES |-> costKES,
       dimensions |-> IF bbox.empty
                      THEN <<"-Infinity", "-Infinity", "-Infinity">>
                      ELSE [c \in 1..3 |-> toFixed1(bbox.max[c] - bbox.min[c], g.den)]]

\* useState<PrintEstimates | null>(null)
NoEstimates ==
  [printTime |-> <<>>, filamentUsed |-> 0, costKES |-> 0, dimensions |-> <<>>]

---------------------------------------------------------------------------
(* State *)

VARIABLES
  file,           \* PrintPreviewModal's file prop (LandingPage's uploadedFile)
  modelRotation,  \* PrintPreviewModal: quarter turns about x, y, z
  geometry,       \* ModelViewer: useState geometry
  isLoading,      \* ModelViewer: useState isLoading
  meshGeometry,   \* meshRef.current.geometry: what the renderer draws
  loads,          \* the loadModel calls: slot -> [file, pc]
  lastLoad,       \* record of the loadModel call that ended last
  pressRun,       \* the geometries displayed before each of the latest presses
                  \* of one button in a row (the last four), since the last
                  \* publication
  filament,       \* PrintPreviewModal: useState filament
  estimates,      \* PrintPreviewModal: useState estimates
  isCalculating,  \* PrintPreviewModal: useState isCalculating
  readers,        \* the FileReaders whose onload has not run: [file, filament]
  lastMeasure     \* record of the reader that set `estimates` last

vars ==
  <<file, modelRotation, geometry, isLoading, meshGeometry, loads, lastLoad, pressRun,
    filament, estimates, isCalculating, readers, lastMeasure>>

\* the state of the estimate panel
panel == <<filament, estimates, isCalculating, readers, lastMeasure>>

NoMeasure == [file |-> NoFile, filament |-> "PLA", volume |-> [num |-> 0, den |-> 1]]

Slots == 1..MaxLoads

IdleLoad == [file |-> NoFile, pc |-> "idle"]

NoLoad ==
  [file |-> NoFile, caught |-> FALSE, scaled |-> FALSE,
   maxDimension |-> <<0, 1>>, scale |-> <<1, 1>>, decoderRuns |-> 0]

NoRun == [axis |-> 0, before |-> <<>>]

Init ==
  /\ file = NoFile
  /\ modelRotation = <<0, 0, 0>>
  /\ geometry = NullGeometry
  /\ isLoading = TRUE
  /\ meshGeometry = NullGeometry
  /\ loads = [s \in Slots |-> IdleLoad]
  /\ lastLoad = NoLoad
  /\ pressRun = NoRun
  /\ filament = "PLA"
  /\ estimates = NoEstimates
  /\ isCalculating = FALSE
  /\ readers = {}
  /\ lastMeasure = NoMeasure

---------------------------------------------------------------------------
(* Actions *)

\* PrintPreviewModal's [file, isOpen, filament] effect for file f and
\* filament fil, up to reader.readAsArrayBuffer(file)
StartEstimate(f, fil) ==
  IF fileExtension(Files[f].name) = <<>>
  THEN UNCHANGED <<isCalculating, readers>>
  ELSE /\ isCalculating' = TRUE
       /\ readers' = readers \cup {[file |-> f, filament |-> fil]}

\* LandingPage.handleFileUpload -> setUploadedFile(f); ModelViewer's
\* [file] effect calls loadModel, which runs to `await file.arrayBuffer()`,
\* and PrintPreviewModal's effect starts a FileReader
SelectFile(f, slots) ==
  /\ f # file
  /\ \E s \in 1..slots :
       /\ loads[s].pc = "idle"
       /\ \A t \in 1..(s - 1) : loads[t].pc # "idle"
       /\ loads' = [loads EXCEPT ![s] = [file |-> f, pc |-> "arrayBuffer"]]
  /\ file' = f
  /\ isLoading' = TRUE
  /\ StartEstimate(f, filament)
  /\ UNCHANGED <<modelRotation, geometry, meshGeometry, lastLoad, pressRun>>
  /\ UNCHANGED <<filament, estimates, lastMeasure>>

\* the filament <select> (shown with the modal, which opens with a file):
\* setFilament, then the effect again
SetFilament(fil) ==
  /\ file # NoFile
  /\ fil # filament
  /\ filament' = fil
  /\ StartEstimate(file, fil)
  /\ UNCHANGED <<file, modelRotation, geometry, isLoading, meshGeometry, loads,
                 lastLoad, pressRun, estimates, lastMeasure>>

\* reader.onload of reader r: decode, measure, setEstimates; a throw is
\* logged; finally setIsCalculating(false)
ReaderLoaded(r) ==
  /\ r \in readers
  /\ readers' = readers \ {r}
  /\ LET decoded == MeasuredGeometry(r.file)
     IN  IF decoded.ok
         THEN /\ estimates' = Measure(MakeGeometry(decoded.pos), r.filament)
              /\ lastMeasure' = [file |-> r.file, filament |-> r.filament,
                                 volume |-> computeMeshVolume(MakeGeometry(decoded.pos))]
         ELSE UNCHANGED <<estimates, lastMeasure>>
  /\ isCalculating' = FALSE
  /\ UNCHANGED <<file, modelRotation, geometry, isLoading, meshGeometry, loads,
                 lastLoad, pressRun, filament>>

\* Publish without the finally block: isLoading is left as it was
PublishWithoutFinally(s, done) ==
  /\ geometry' = done.geometry
  /\ isLoading' = isLoading
  /\ meshGeometry' = RotationEffect(done.geometry, modelRotation)
  /\ loads' = [loads EXCEPT ![s] = IdleLoad]
  /\ lastLoad' = [file |-> loads[s].file, caught |-> done.caught, scaled |-> done.scaled,
                  maxDimension |-> done.maxDimension, scale |-> done.scale,
                  decoderRuns |-> done.decoderRuns]
  /\ pressRun' = NoRun
  /\ UNCHANGED <<file, modelRotation>>
  /\ UNCHANGED panel

\* setGeometry(...), finally setIsLoading(false); the re-render hands the
\* new geometry to the mesh and the [rotation, geometry] effect re-bakes it
Publish(s, done) ==
  /\ geometry' = done.geometry
  /\ isLoading' = FALSE
  /\ meshGeometry' = RotationEffect(done.geometry, modelRotation)
  /\ loads' = [loads EXCEPT ![s] = IdleLoad]
  /\ lastLoad' = [file |-> loads[s].file, caught |-> done.caught, scaled |-> done.scaled,
                  maxDimension |-> done.maxDimension, scale |-> done.scale,
                  decoderRuns |-> done.decoderRuns]
  /\ pressRun' = NoRun
  /\ UNCHANGED <<file, modelRotation>>
  /\ UNCHANGED panel

\* file.arrayBuffer() resolved, stl / obj / other extension: the load runs
\* to its end
ArrayBufferResolved(s) ==
  /\ loads[s].pc = "arrayBuffer"
  /\ fileExtension(Files[loads[s].file].name) # Ext3MF
  /\ Publish(s, BytesOutcome[loads[s].file])

\* file.arrayBuffer() resolved, 3mf: convert3MFToSTL runs to
\* `await JSZip.loadAsync(buffer)`
ArrayBufferResolved3MF(s) ==
  /\ loads[s].pc = "arrayBuffer"
  /\ fileExtension(Files[loads[s].file].name) = Ext3MF
  /\ loads' = [loads EXCEPT ![s].pc = "loadAsync"]
  /\ UNCHANGED <<file, modelRotation, geometry, isLoading, meshGeometry, lastLoad, pressRun>>
  /\ UNCHANGED panel

\* JSZip.loadAsync settled and the model entry exists: convert3MFToSTL runs
\* to `await modelFile.async('text')`
LoadAsyncResolved(s) ==
  /\ loads[s].pc = "loadAsync"
  /\ HasModelFile(Files[loads[s].file].zip)
  /\ loads' = [loads EXCEPT ![s].pc = "async"]
  /\ UNCHANGED <<file, modelRotation, geometry, isLoading, meshGeometry, lastLoad, pressRun>>
  /\ UNCHANGED panel

\* JSZip.loadAsync rejected, or there is no model entry: convert3MFToSTL
\* returns null and the load runs to its end
LoadAsyncNoModel(s) ==
  /\ loads[s].pc = "loadAsync"
  /\ ~HasModelFile(Files[loads[s].file].zip)
  /\ Publish(s, ConvertedOutcome[loads[s].file])

\* modelFile.async('text') resolved: the rest of convert3MFToSTL and of
\* loadModel
EntryTextResolved(s) ==
  /\ loads[s].pc = "async"
  /\ Publish(s, ConvertedOutcome[loads[s].file])

\* Rotate with the effect rotating the buffer on display, not a fresh clone
\* of `geometry`
RotateCompounding(axis, bound) ==
  /\ file # NoFile
  /\ modelRotation[1] + modelRotation[2] + modelRotation[3] < bound
  /\ modelRotation' = [modelRotation EXCEPT ![axis] = @ + 1]
  /\ meshGeometry' = IF geometry # NullGeometry
                     THEN RotationEffect(meshGeometry, modelRotation')
                     ELSE meshGeometry
  /\ pressRun' = IF pressRun.axis = axis
                 THEN [axis |-> axis,
                       before |-> IF Len(pressRun.before) < 4
                                  THEN Append(pressRun.before, meshGeometry)
                                  ELSE Append(Tail(pressRun.before), meshGeometry)]
                 ELSE [axis |-> axis, before |-> <<meshGeometry>>]
  /\ UNCHANGED <<file, geometry, isLoading, loads, lastLoad>>
  /\ UNCHANGED panel

\* Rotate with the effect rotating `geometry` itself, not a clone of it
RotateInPlace(axis, bound) ==
  /\ file # NoFile
  /\ modelRotation[1] + modelRotation[2] + modelRotation[3] < bound
  /\ modelRotation' = [modelRotation EXCEPT ![axis] = @ + 1]
  /\ geometry' = IF geometry # NullGeometry
                 THEN RotationEffect(geometry, modelRotation')
                 ELSE geometry
  /\ meshGeometry' = IF geometry # NullGeometry THEN geometry' ELSE meshGeometry
  /\ pressRun' = IF pressRun.axis = axis
                 THEN [axis |-> axis,
                       before |-> IF Len(pressRun.before) < 4
                                  THEN Append(pressRun.before, meshGeometry)
                                  ELSE Append(Tail(pressRun.before), meshGeometry)]
                 ELSE [axis |-> axis, before |-> <<meshGeometry>>]
  /\ UNCHANGED <<file, isLoading, loads, lastLoad>>
  /\ UNCHANGED panel

\* Rotate with a handler that keeps the pressed axis only:
\* setModelRotation([modelRotation[0] + Math.PI / 2, 0, 0]) and alike
RotateResettingOthers(axis, bound) ==
  /\ file # NoFile
  /\ modelRotation[1] + modelRotation[2] + modelRotation[3] < bound
  /\ modelRotation' = [c \in 1..3 |-> IF c = axis THEN modelRotation[c] + 1 ELSE 0]
  /\ meshGeometry' = IF geometry # NullGeometry
                     THEN RotationEffect(geometry, modelRotation')
                     ELSE meshGeometry
  /\ pressRun' = IF pressRun.axis = axis
                 THEN [axis |-> axis,
                       before |-> IF Len(pressRun.before) < 4
                                  THEN Append(pressRun.before, meshGeometry)
                                  ELSE Append(Tail(pressRun.before), meshGeometry)]
                 ELSE [axis |-> axis, before |-> <<meshGeometry>>]
  /\ UNCHANGED <<file, geometry, isLoading, loads, lastLoad>>
  /\ UNCHANGED panel

\* a rotate button (axis 1, 2, 3 = x, y, z): setModelRotation, then
\* ModelViewer's [rotation, geometry] effect
Rotate(axis, bound) ==
  /\ file # NoFile
  /\ modelRotation[1] + modelRotation[2] + modelRotation[3] < bound
  /\ modelRotation' = [modelRotation EXCEPT ![axis] = @ + 1]
  /\ meshGeometry' = IF geometry # NullGeometry
                     THEN RotationEffect(geometry, modelRotation')
                     ELSE meshGeometry
  /\ pressRun' = IF pressRun.axis = axis
                 THEN [axis |-> axis,
                       before |-> IF Len(pressRun.before) < 4
                                  THEN Append(pressRun.before, meshGeometry)
                                  ELSE Append(Tail(pressRun.before), meshGeometry)]
                 ELSE [axis |-> axis, before |-> <<meshGeometry>>]
  /\ UNCHANGED <<file, geometry, isLoading, loads, lastLoad>>
  /\ UNCHANGED panel

LoadStep(s) ==
  \/ ArrayBufferResolved(s)
  \/ ArrayBufferResolved3MF(s)
  \/ LoadAsyncResolved(s)
  \/ LoadAsyncNoModel(s)
  \/ EntryTextResolved(s)

\* the files selected while other loads are suspended: an STL, a 3MF with
\* its two further awaits, a 3MF without model entry
ConcurrentFiles == {1, 7, 8}

\* In Spec, SpecLive and SpecRotation the FileReader of the estimate effect
\* is the first thing to finish: nothing else happens while a reader is
\* pending.  No step of a load or of a press reads the panel's state.
Settled == readers = {}

Next ==
  \/ \E f \in ConcurrentFiles : Settled /\ SelectFile(f, MaxLoads)
  \/ \E s \in Slots : Settled /\ LoadStep(s)
  \/ \E axis \in 1..3 : Settled /\ Rotate(axis, MaxPresses)
  \/ \E r \in readers : ReaderLoaded(r)

Spec == Init /\ [][Next]_vars

\* every sample file, one file per behaviour, longer runs of presses,
\* made while the file loads and after it is displayed (Spec and
\* SpecEstimate have the behaviours with one file after the other)
NextRotation ==
  \/ \E f \in SampleIds : Settled /\ file = NoFile /\ SelectFile(f, 1)
  \/ \E s \in Slots : Settled /\ LoadStep(s)
  \/ \E axis \in 1..3 : Settled /\ Rotate(axis, MaxTurns)
  \/ \E r \in readers : ReaderLoaded(r)

SpecRotation == Init /\ [][NextRotation]_vars

\* the estimate panel with the previewer: readers, loads, presses and
\* filament changes interleave freely, with at most MaxReaders readers
\* pending
NextEstimate ==
  \/ \E f \in ConcurrentFiles : Cardinality(readers) < MaxReaders /\ SelectFile(f, 1)
  \/ \E s \in Slots : LoadStep(s)
  \/ \E axis \in 1..3 : Rotate(axis, MaxPresses)
  \/ \E fil \in Filaments : Cardinality(readers) < MaxReaders /\ SetFilament(fil)
  \/ \E r \in readers : ReaderLoaded(r)

SpecEstimate == Init /\ [][NextEstimate]_vars

\* parseOBJ on every generated OBJ text: one file is selected and loaded;
\* its FileReader is still reading
NextOBJ ==
  \/ \E f \in ObjTextIds : file = NoFile /\ SelectFile(f, 1)
  \/ \E s \in Slots : ArrayBufferResolved(s)

SpecOBJ == Init /\ [][NextOBJ]_vars

\* the files of Spec3MF: the generated archives, the wide models, the two
\* sample archives and the named files that dispatch to convert3MFToSTL
Selected3MF ==
  ArchiveIds \cup WideArchiveIds \cup {7, 8}
  \cup {f \in NamedIds : fileExtension(Files[f].name) = Ext3MF}

\* convert3MFToSTL on every file of Selected3MF: one file is selected and
\* loaded; its FileReader is still reading
Next3MF ==
  \/ \E f \in Selected3MF : file = NoFile /\ SelectFile(f, 1)
  \/ \E s \in Slots : ArrayBufferResolved3MF(s)
  \/ \E s \in Slots : LoadAsyncResolved(s)
  \/ \E s \in Slots : LoadAsyncNoModel(s)
  \/ \E s \in Slots : EntryTextResolved(s)

Spec3MF == Init /\ [][Next3MF]_vars

\* parseSTL and the estimate of every generated STL buffer and of the
\* sample STL and OBJ files: one file is selected, loaded and measured,
\* with both filaments
NextSTL ==
  \/ \E f \in StlBufferIds \cup (1..6) : file = NoFile /\ SelectFile(f, 1)
  \/ \E s \in Slots : ArrayBufferResolved(s)
  \/ \E fil \in Filaments : Settled /\ SetFilament(fil)
  \/ \E r \in readers : ReaderLoaded(r)

SpecSTL == Init /\ [][NextSTL]_vars

\* the dispatch on the file name: one named or sample file is selected,
\* loaded, measured and turned
NextDispatch ==
  \/ \E f \in NamedIds \cup SampleIds : file = NoFile /\ SelectFile(f, 1)
  \/ \E s \in Slots : LoadStep(s)
  \/ \E axis \in 1..3 : Rotate(axis, MaxPresses)
  \/ \E r \in readers : ReaderLoaded(r)

SpecDispatch == Init /\ [][NextDispatch]_vars

\* Every promise a load awaits settles: weak fairness of each slot's
\* LoadStep.  This is WF_vars(LoadStep(s)) written out as
\* []<>~ENABLED <<LoadStep(s)>>_vars \/ []<><<LoadStep(s)>>_vars, with the
\* enabling condition stated directly: a suspended load (pc other than
\* "idle") has exactly one LoadStep disjunct enabled, and that step changes
\* loads[s].
Fairness ==
  \A s \in Slots : ([]<>(loads[s].pc = "idle")) \/ ([]<><<LoadStep(s)>>_vars)

\* the loads without the rotate buttons, which touch no load
NextLive ==
  \/ \E f \in ConcurrentFiles : Settled /\ SelectFile(f, MaxLoads)
  \/ \E s \in Slots : Settled /\ LoadStep(s)
  \/ \E r \in readers : ReaderLoaded(r)

SpecLive == Init /\ [][NextLive]_vars /\ Fairness

---------------------------------------------------------------------------
(* Measures used by the claims *)

\* a and b have the same bounding box and the same volume; when nothing is
\* displayed (null) or the mesh is empty, both are so
SameBoxAndVolume(a, b) ==
  LET ba == computeBoundingBox(a)
      bb == computeBoundingBox(b)
      va == computeMeshVolume(a)
      vb == computeMeshVolume(b)
  IN  /\ (a = NullGeometry) = (b = NullGeometry)
      /\ ba.empty = bb.empty
      /\ ~ba.empty =>
           /\ \A c \in 1..3 : /\ ba.min[c] * b.den = bb.min[c] * a.den
                              /\ ba.max[c] * b.den = bb.max[c] * a.den
           /\ va.num * vb.den = vb.num * va.den

\* g is not empty, its least y is 0 and its x and z extents are centred on 0
RestsOnBed(g) ==
  LET box == computeBoundingBox(g)
  IN  /\ ~box.empty
      /\ box.min[2] = 0
      /\ box.min[1] + box.max[1] = 0
      /\ box.min[3] + box.max[3] = 0

\* some loadModel call is suspended
Loading(s) == loads[s].pc # "idle"

\* the STL buffer is shorter than 84 + triangleCount * 50 bytes (or too
\* short to hold the count)
ShortBuffer(buffer) ==
  \/ buffer.byteLength < 84
  \/ buffer.byteLength < 84 + buffer.numTriangles * 50

---------------------------------------------------------------------------
(* Claims *)

\* C1: last-load-wins.  Once no load is suspended, the geometry on display
\* was published by the load of the current file prop, whatever the order
\* in which the loads ended.
C1_LastLoadWins ==
  (file # NoFile /\ \A s \in Slots : ~Loading(s)) => lastLoad.file = file

\* C2: whatever was loaded and however often the buttons were pressed, the
\* mesh handed to the renderer is not empty, has least y = 0 and has its x
\* and z extents centred on 0.
C2_DisplayedRestsOnBed ==
  meshGeometry # NullGeometry => RestsOnBed(meshGeometry)

\* C3: the scale a load used is min(1, 40 / maxDimension): it is at most 1,
\* it is 1 when maxDimension <= 40, it brings a larger maxDimension to
\* exactly 40, and the published geometry's largest side is at most 40.
C3_ScaleToFit ==
  /\ lastLoad.scaled =>
       LET m == lastLoad.maxDimension
           sc == lastLoad.scale
       IN  /\ sc[1] > 0 /\ sc[2] > 0 /\ sc[1] <= sc[2]
           /\ m[1] <= 40 * m[2] => sc[1] = sc[2]
           /\ m[1] > 40 * m[2] => sc[1] * m[1] = 40 * m[2] * sc[2]
  /\ geometry # NullGeometry =>
       MaxDimensionOf(getSize(computeBoundingBox(geometry))) <= 40 * geometry.den

\* a load scaled a mesh larger than 40 down
C3_Witness ==
  /\ lastLoad.scaled
  /\ lastLoad.maxDimension[1] > 40 * lastLoad.maxDimension[2]
  /\ lastLoad.scale[1] < lastLoad.scale[2]
  /\ geometry # NullGeometry

\* C4: the load of an STL file whose buffer is shorter than
\* 84 + triangleCount * 50 bytes ends in the catch block, with the
\* placeholder cube published.
C4_ShortSTLFallsBack ==
  (/\ lastLoad.file # NoFile
   /\ fileExtension(Files[lastLoad.file].name) = ExtSTL
   /\ ShortBuffer(Files[lastLoad.file].stl))
  => (lastLoad.caught /\ geometry = FallbackGeometry)

\* C5: a published geometry has at least one triangle.
C5_NoEmptyMeshPublished ==
  geometry # NullGeometry => Len(geometry.pos) >= 3

\* C6: every load that started ends, and the step that ends it leaves
\* isLoading false and a geometry published, after at most one decoder run.
C6_EveryLoadEnds ==
  /\ \A s \in Slots : Loading(s) ~> ~Loading(s)
  /\ [][\A s \in Slots :
          (Loading(s) /\ ~Loading(s)') =>
             (/\ isLoading' = FALSE
              /\ geometry' # NullGeometry
              /\ lastLoad'.file = loads[s].file
              /\ lastLoad'.decoderRuns <= 1)]_vars

\* a load that ran a decoder has ended, and none is suspended
C6_Witness ==
  /\ lastLoad.file # NoFile
  /\ lastLoad.decoderRuns = 1
  /\ ~isLoading
  /\ geometry # NullGeometry
  /\ \A s \in Slots : ~Loading(s)

\* C7: a change of the file prop resets the rotation state to [0, 0, 0].
C7_RotationResetOnNewFile ==
  [][file' # file => modelRotation' = <<0, 0, 0>>]_vars

\* C8: a press made while the load of the current file is suspended does
\* not change what is displayed (the geometry on display being an earlier
\* file's): it is held or dropped.
C8_PressHeldWhileLoading ==
  [][(/\ modelRotation' # modelRotation
      /\ \E s \in Slots : Loading(s) /\ loads[s].file = file
      /\ lastLoad.file # file)
     => meshGeometry' = meshGeometry]_vars

\* C9: after four presses of one button in a row the displayed mesh has
\* the bounding box and the volume of the mesh displayed before them.
C9_FourQuarterTurns ==
  Len(pressRun.before) = 4 => SameBoxAndVolume(meshGeometry, pressRun.before[1])

\* four presses in a row were made on a displayed mesh, and the first of
\* them changed its bounding box
C9_Witness ==
  /\ Len(pressRun.before) = 4
  /\ geometry # NullGeometry
  /\ pressRun.before[1] # NullGeometry
  /\ ~SameBoxAndVolume(pressRun.before[2], pressRun.before[1])

\* C10: a press displays the full normaliser's result (scale by
\* min(1, 40 / maxDimension), box again, translate) on the rotated copy of
\* `geometry`.
C10_RebakeIsFullNormalizer ==
  [][(modelRotation' # modelRotation /\ geometry # NullGeometry) =>
       meshGeometry' =
         ScaleAndPosition(applyMatrix4(geometry, makeRotationFromEuler(modelRotation'))).geometry]_vars

\* a press turned a displayed, non-empty mesh into a different one
C10_Witness ==
  /\ pressRun.before # <<>>
  /\ geometry # NullGeometry
  /\ geometry.pos # <<>>
  /\ meshGeometry # pressRun.before[Len(pressRun.before)]
  /\ meshGeometry # geometry

\* what the load of file f publishes when it ends
OutcomeOf(f) ==
  IF fileExtension(Files[f].name) = Ext3MF THEN ConvertedOutcome[f] ELSE BytesOutcome[f]

\* C11: presses never change the stored geometry, which stays the one the
\* last load published, and the displayed mesh is the rotation by the
\* cumulative angles of the stored geometry, put back on the bed: a
\* function of the stored geometry and the angle triple alone.
C11_RotationOnFreshCopy ==
  /\ lastLoad.file # NoFile => geometry = OutcomeOf(lastLoad.file).geometry
  /\ geometry # NullGeometry =>
       meshGeometry =
         positionOnPrintBed(applyMatrix4(geometry, makeRotationFromEuler(modelRotation)))

\* two presses in a row were made on a displayed non-empty mesh, and what
\* is displayed differs from the stored geometry
C11_Witness ==
  /\ Len(pressRun.before) >= 2
  /\ geometry # NullGeometry
  /\ Len(geometry.pos) >= 3
  /\ meshGeometry # geometry
  /\ pressRun.before[2] # pressRun.before[1]

\* the load of file f ended last and nothing is suspended
Ended(f) == lastLoad.file = f /\ \A s \in Slots : ~Loading(s)

\* the vertex lines of an OBJ text above line j
VerticesAbove(lines, j) == SelectSeq(SubSeq(lines, 1, j - 1), LAMBDA l : l.tag = "v")

\* reference `ref` of line j names no vertex parsed so far
BadReference(lines, j, ref) ==
  \/ ~ref[1].int
  \/ ref[1].n < 1
  \/ ref[1].n > Len(VerticesAbove(lines, j))

\* C16: the load of an OBJ text with a face line holding a reference
\* outside the vertices parsed so far ends in the catch block with the
\* placeholder cube published.
C16_BadReferenceFallsBack ==
  \A f \in ObjTextIds :
    (/\ Ended(f)
     /\ \E j \in 1..Len(Files[f].obj) :
          /\ Files[f].obj[j].tag = "f"
          /\ \E k \in 1..Len(Files[f].obj[j].args) :
               BadReference(Files[f].obj, j, Files[f].obj[j].args[k]))
    => (lastLoad.caught /\ geometry = FallbackGeometry)

\* the triangles of a fan from the first reference of a face of n references
FanCount(n) == IF n >= 3 THEN n - 2 ELSE 0

RECURSIVE FanTotal(_)
FanTotal(lines) ==
  IF lines = <<>> THEN 0
  ELSE (IF Head(lines).tag = "f" THEN FanCount(Len(Head(lines).args)) ELSE 0)
       + FanTotal(Tail(lines))

\* C17: when the decode of an OBJ text succeeds, every face line is in the
\* mesh, fan-triangulated from its first vertex: the mesh has n - 2
\* triangles for each face line of n >= 3 references.
C17_OtherFacesNotDropped ==
  \A f \in ObjTextIds :
    (Ended(f) /\ ~lastLoad.caught) => Len(geometry.pos) = 3 * FanTotal(Files[f].obj)

\* the vertex a reference of line j names
Named(lines, j, ref) == VerticesAbove(lines, j)[ref[1].n].args

\* the positions face line j gives: r0 r1 r2 for three references,
\* r0 r1 r2 r0 r2 r3 for four, none otherwise
FacePositions(lines, j) ==
  LET r == lines[j].args
  IN  IF lines[j].tag # "f" THEN <<>>
      ELSE IF Len(r) = 3
      THEN <<Named(lines, j, r[1]), Named(lines, j, r[2]), Named(lines, j, r[3])>>
      ELSE IF Len(r) = 4
      THEN <<Named(lines, j, r[1]), Named(lines, j, r[2]), Named(lines, j, r[3]),
             Named(lines, j, r[1]), Named(lines, j, r[3]), Named(lines, j, r[4])>>
      ELSE <<>>

RECURSIVE PositionsFrom(_, _)
PositionsFrom(lines, j) ==
  IF j > Len(lines) THEN <<>>
  ELSE FacePositions(lines, j) \o PositionsFrom(lines, j + 1)

\* the face lines of n references
FacesOf(lines, n) == {j \in 1..Len(lines) : lines[j].tag = "f" /\ Len(lines[j].args) = n}

\* C18: when the decode of an OBJ text succeeds, the mesh is, face line by
\* face line in file order, one triangle for three references and the
\* triangles (r0,r1,r2), (r0,r2,r3) for four, each reference read as the
\* 1-based index before its first slash; it has
\* (#3-reference faces) + 2 * (#4-reference faces) triangles.
C18_FacesToTriangles ==
  \A f \in ObjTextIds :
    (Ended(f) /\ ~lastLoad.caught) =>
      /\ geometry = ScaleAndPosition(MakeGeometry(PositionsFrom(Files[f].obj, 1))).geometry
      /\ Len(geometry.pos) =
           3 * (Cardinality(FacesOf(Files[f].obj, 3)) + 2 * Cardinality(FacesOf(Files[f].obj, 4)))

\* the decode of a text with a quad and a triangle written with slashes
\* succeeded
C18_Witness ==
  \E f \in ObjTextIds :
    /\ Ended(f)
    /\ ~lastLoad.caught
    /\ FacesOf(Files[f].obj, 4) # {}
    /\ \E j \in FacesOf(Files[f].obj, 3) : Len(Files[f].obj[j].args[1]) = 2
    /\ Len(geometry.pos) = 9

\* the 3mf files: the generated archives and the two samples
ArchiveFiles == ArchiveIds \cup {7, 8}

\* triangle element t names three vertices of the table
InRange(archive, t) == \A c \in 1..3 : t[c] \in 0..(Len(archive.vertex) - 1)

RECURSIVE InRangePositions(_, _)
\* the vertices of the in-range triangle elements from element i on
InRangePositions(archive, i) ==
  IF i > Len(archive.triangle) THEN <<>>
  ELSE (IF InRange(archive, archive.triangle[i])
        THEN [c \in 1..3 |-> archive.vertex[archive.triangle[i][c] + 1]]
        ELSE <<>>)
       \o InRangePositions(archive, i + 1)

InRangeCount(archive) ==
  Cardinality({i \in 1..Len(archive.triangle) : InRange(archive, archive.triangle[i])})

\* C19: the load of a 3MF model with at least one triangle element whose
\* three indices are in range decodes exactly those elements, in document
\* order, and raises no error.
C19_OutOfRangeTrianglesDropped ==
  \A f \in ArchiveFiles :
    (Ended(f) /\ Files[f].zip.entry /\ InRangeCount(Files[f].zip) >= 1) =>
      /\ ~lastLoad.caught
      /\ lastLoad.decoderRuns = 1
      /\ Len(geometry.pos) = 3 * InRangeCount(Files[f].zip)
      /\ geometry = ScaleAndPosition(MakeGeometry(InRangePositions(Files[f].zip, 1))).geometry

\* a model with an out-of-range element between two in-range ones was
\* loaded
C19_Witness ==
  \E f \in ArchiveFiles :
    /\ Ended(f)
    /\ Len(Files[f].zip.triangle) = 3
    /\ InRange(Files[f].zip, Files[f].zip.triangle[1])
    /\ ~InRange(Files[f].zip, Files[f].zip.triangle[2])
    /\ InRange(Files[f].zip, Files[f].zip.triangle[3])
    /\ Len(geometry.pos) = 6

\* C20: the load of a 3MF archive without model entry, or whose model has
\* no vertex element or no triangle element, publishes the placeholder
\* cube, runs no decoder and does not reach the catch block.
C20_EmptyModelFallsBack ==
  \A f \in ArchiveFiles :
    (/\ Ended(f)
     /\ \/ ~Files[f].zip.entry
        \/ Files[f].zip.vertex = <<>>
        \/ Files[f].zip.triangle = <<>>)
    => /\ geometry = positionOnPrintBed(BoxGeometry(20, 20, 20))
       /\ ~lastLoad.caught
       /\ lastLoad.decoderRuns = 0
       /\ ~isLoading

\* a model with triangle elements and no vertex element was loaded
C20_Witness ==
  \E f \in ArchiveFiles :
    /\ Ended(f)
    /\ Files[f].zip.entry
    /\ Files[f].zip.vertex = <<>>
    /\ Files[f].zip.triangle # <<>>
    /\ geometry # NullGeometry

\* nothing is in flight: no load is suspended and no FileReader pending
Quiet == readers = {} /\ \A s \in Slots : ~Loading(s)

\* the measurement of file f's bytes by the estimate effect throws
Unmeasurable(f) == ~MeasuredGeometry(f).ok

\* width, height, depth of a non-empty geometry, in tenths
Dimensions(g) ==
  LET bbox == computeBoundingBox(g)
  IN  [c \in 1..3 |-> toFixed1(bbox.max[c] - bbox.min[c], g.den)]

\* C12: a step that sets the estimates of a file is made after the load of
\* that file ended, and the estimates it sets are the measure of the
\* normalized geometry that load published.
C12_MeasureAfterNormalize ==
  [][lastMeasure' # lastMeasure =>
       /\ lastLoad.file = lastMeasure'.file
       /\ \A s \in Slots : ~(Loading(s) /\ loads[s].file = lastMeasure'.file)
       /\ estimates' = Measure(geometry, lastMeasure'.filament)]_vars

\* C13: the reported dimensions are the sides of the normalized mesh of
\* the measured file, rounded to one decimal, and none exceeds 40.
C13_DimensionsOfScaledMesh ==
  lastMeasure.file # NoFile =>
    /\ estimates.dimensions = Dimensions(OutcomeOf(lastMeasure.file).geometry)
    /\ \A c \in 1..3 : estimates.dimensions[c] <= 400

\* C14: once nothing is in flight, a current file whose measurement failed
\* (malformed, 3mf, unknown extension) has the estimates of the
\* placeholder cube for the current filament.
C14_EstimatesOnFailure ==
  (Quiet /\ file # NoFile /\ Unmeasurable(file)) =>
    estimates = Measure(FallbackGeometry, filament)

\* C15: a change of file, a change of filament, and a press that changes
\* the width, height or depth of the displayed mesh each start a
\* measurement for the current file and filament.
C15_RecomputedOnChange ==
  [][(\/ file' # file
      \/ filament' # filament
      \/ /\ modelRotation' # modelRotation
         /\ meshGeometry # NullGeometry
         /\ meshGeometry.pos # <<>>
         /\ Dimensions(meshGeometry') # Dimensions(meshGeometry))
     => [file |-> file', filament |-> filament'] \in readers']_vars

\* the generated and sample STL files whose buffer holds every counted
\* record: byteLength >= 84 + 50 * count
CompleteSTL(f) ==
  /\ fileExtension(Files[f].name) = ExtSTL
  /\ Files[f].stl.byteLength >= FirstFacetOffset + FacetBytes * Files[f].stl.numTriangles

\* the buffer with a blank header and zero attribute bytes
Blanked(buffer) ==
  [buffer EXCEPT !.header = "",
                 !.facets = [i \in 1..Len(buffer.facets) |->
                              [buffer.facets[i] EXCEPT !.attr = 0]]]

\* C21: the load of an STL file whose buffer holds the n records its header
\* counts decodes exactly n triangles: vertex j of triangle i is vertex j of
\* record i, the normal of record i stands at each of its three vertices,
\* records after the n-th are not read, and the header and the attribute
\* bytes change nothing; the mesh published is the normalised mesh of
\* these positions.
C21_DecodesCountedFacets ==
  \A f \in StlBufferIds :
    (lastLoad.file = f /\ CompleteSTL(f)) =>
      LET buffer == Files[f].stl
          n == buffer.numTriangles
          decoded == parseSTL(buffer)
      IN  /\ decoded.ok
          /\ Len(decoded.pos) = 3 * n
          /\ Len(decoded.nrm) = 3 * n
          /\ \A i \in 1..n :
                /\ decoded.pos[3 * i - 2] = buffer.facets[i].v1
                /\ decoded.pos[3 * i - 1] = buffer.facets[i].v2
                /\ decoded.pos[3 * i] = buffer.facets[i].v3
                /\ \A j \in 0..2 : decoded.nrm[3 * i - j] = buffer.facets[i].normal
          /\ decoded = parseSTL(Blanked(buffer))
          /\ ~lastLoad.caught
          /\ lastLoad.decoderRuns = 1
          /\ geometry = ScaleAndPosition(MakeGeometry(decoded.pos)).geometry

\* the load of a two-record buffer with a third record after the counted
\* ones, non-zero attribute bytes and a non-blank header has ended
C21_Witness ==
  /\ file \in StlBufferIds
  /\ lastLoad.file = file
  /\ Files[file].stl.numTriangles = 2
  /\ Len(Files[file].stl.facets) = 3
  /\ Files[file].stl.facets[1].attr = 7
  /\ Files[file].stl.header = "solid"
  /\ Len(geometry.pos) = 6

\* the vertices of the triangles the encoder is given: the kept triangle
\* elements of the model, in document order
EncodedPositions(archive) == InRangePositions(archive, 1)

\* C22: the load of a 3MF model with at least one kept triangle, which
\* encodes the kept triangles to the binary STL layout and decodes the
\* buffer, gives as many triangles as were encoded, and each decoded
\* coordinate is the float32 nearest to the encoded one (the encoded one
\* itself when it is a float32 value), in the same order.
C22_RoundTripWithinFloat32 ==
  \A f \in ArchiveFiles \cup WideArchiveIds :
    (Ended(f) /\ InRangeCount(Files[f].zip) >= 1 /\ Files[f].zip.entry) =>
      LET given == EncodedPositions(Files[f].zip)
          decoded == parseSTL(EncodeSTL(Files[f].zip))
      IN  /\ decoded.ok
          /\ Len(decoded.pos) = Len(given)
          /\ \A i \in 1..Len(given) : decoded.pos[i] = Float32Vec(given[i])
          /\ geometry = ScaleAndPosition(MakeGeometry(decoded.pos)).geometry

\* C22 as stated: the decoded positions are the encoded positions.
C22_RoundTripExact ==
  \A f \in ArchiveFiles \cup WideArchiveIds :
    (Ended(f) /\ InRangeCount(Files[f].zip) >= 1 /\ Files[f].zip.entry) =>
      LET given == EncodedPositions(Files[f].zip)
          decoded == parseSTL(EncodeSTL(Files[f].zip))
      IN  /\ decoded.ok
          /\ Len(decoded.pos) = Len(given)
          /\ decoded.pos = given
          /\ geometry = ScaleAndPosition(MakeGeometry(given)).geometry

\* a model with a coordinate of 25 significant bits was loaded, and the
\* mesh on display has the rounded coordinate
C22_Witness ==
  \E f \in WideArchiveIds :
    /\ Ended(f)
    /\ Files[f].zip.vertex[2][1] = 16777217
    /\ parseSTL(EncodeSTL(Files[f].zip)).pos[2][1] = 16777216
    /\ Len(geometry.pos) = 3

\* dot(p1, cross(p2, p3))
TripleProduct(p1, p2, p3) ==
  p1[1] * (p2[2] * p3[3] - p2[3] * p3[2])
  + p1[2] * (p2[3] * p3[1] - p2[1] * p3[3])
  + p1[3] * (p2[1] * p3[2] - p2[2] * p3[1])

RECURSIVE TripleSum(_, _)
\* the sum of the triple products of the first n triangles of p
TripleSum(p, n) ==
  IF n = 0 THEN 0
  ELSE TripleSum(p, n - 1) + TripleProduct(p[3 * n - 2], p[3 * n - 1], p[3 * n])

\* the mesh with the winding of every triangle reversed: (p1, p3, p2)
ReversedWinding(g) ==
  [den |-> g.den,
   pos |-> [i \in 1..Len(g.pos) |->
             IF i % 3 = 2 THEN g.pos[i + 1] ELSE IF i % 3 = 0 THEN g.pos[i - 1] ELSE g.pos[i]]]

\* the geometry the estimate of file f was computed on
MeasuredMesh(f) == MakeGeometry(MeasuredGeometry(f).pos)

\* C23: the volume behind the estimates on display is the absolute value
\* of the sum over the triangles of dot(p1, cross(p2, p3)) / 6; it is not
\* negative, and the mesh with every winding reversed has the same volume.
C23_VolumeNonNegative ==
  lastMeasure.file # NoFile =>
    LET g == MeasuredMesh(lastMeasure.file)
        volume == computeMeshVolume(g)
    IN  /\ lastMeasure.volume = volume
        /\ volume.num >= 0
        /\ volume.den = 6
        /\ volume.num = Abs(TripleSum(g.pos, Len(g.pos) \div 3))
        /\ computeMeshVolume(ReversedWinding(g)) = volume

\* a mesh whose signed sum is negative was measured
C23_Witness ==
  /\ lastMeasure.file # NoFile
  /\ TripleSum(MeasuredMesh(lastMeasure.file).pos,
                Len(MeasuredMesh(lastMeasure.file).pos) \div 3) < 0
  /\ lastMeasure.volume.num > 0
  /\ estimates # NoEstimates

\* C24: when the estimates of a file are replaced by those of the same
\* file with the other filament, the dimensions, the volume and the print
\* time stay as they were; filamentUsed is the volume times 1.24 times the
\* filament's factor, and the cost differs only as far as filamentUsed
\* does.
C24_FilamentOnlyScalesDensity ==
  [][(/\ lastMeasure.file # NoFile
      /\ lastMeasure'.file = lastMeasure.file
      /\ lastMeasure'.filament # lastMeasure.filament)
     => /\ estimates'.dimensions = estimates.dimensions
        /\ estimates'.printTime = estimates.printTime
        /\ lastMeasure'.volume = lastMeasure.volume
        /\ estimates'.filamentUsed =
             toFixed1(lastMeasure.volume.num * Density * filamentTypes[lastMeasure'.filament],
                      lastMeasure.volume.den * 1000 * 100 * 10)
        /\ (estimates'.filamentUsed = estimates.filamentUsed
              => estimates'.costKES = estimates.costKES)]_vars

\* the sample STL was measured with PLA and then with PETG: less filament,
\* a lower cost, the same print time
C24_Witness ==
  /\ lastMeasure.file = 1
  /\ lastMeasure.filament = "PETG"
  /\ filament = "PETG"
  /\ estimates = Measure(MeasuredMesh(1), "PETG")
  /\ estimates.filamentUsed < Measure(MeasuredMesh(1), "PLA").filamentUsed
  /\ estimates.costKES < Measure(MeasuredMesh(1), "PLA").costKES
  /\ estimates.printTime = Measure(MeasuredMesh(1), "PLA").printTime

\* the positions of "." in a name
Dots(name) == {k \in 1..Len(name) : name[k] = "."}

\* the text after the last dot of a name, lower-cased; the whole name when
\* it has no dot
LastPart(name) ==
  LET from == IF Dots(name) = {} THEN 1
              ELSE 1 + CHOOSE k \in Dots(name) : \A j \in Dots(name) : j <= k
  IN  [i \in 1..(Len(name) - from + 1) |-> toLowerCase(name[from + i - 1])]

\* the text after the last dot of a name, lower-cased; none when the name
\* has no dot
AfterDot(name) == IF Dots(name) = {} THEN <<>> ELSE LastPart(name)

\* what a load of file f publishes when the dispatch key is `key`
Dispatched(f, key) ==
  IF key = ExtSTL THEN Completed(parseSTL(Files[f].stl), 1)
  ELSE IF key = ExtOBJ THEN Completed(parseOBJ(Files[f].obj), 1)
  ELSE IF key = Ext3MF
  THEN (IF HasModelFile(Files[f].zip) /\ ~convert3MFToSTL(Files[f].zip).null
        THEN Completed(parseSTL(convert3MFToSTL(Files[f].zip).buffer), 1)
        ELSE Completed(Placeholder, 0))
  ELSE Completed(Placeholder, 0)

\* the load of file f ended as the dispatch on `key` has it; for a key
\* other than stl, obj, 3mf no decoder ran and the 20-unit cube was
\* normalised and published
DispatchedOn(f, key) ==
  /\ geometry = Dispatched(f, key).geometry
  /\ lastLoad.decoderRuns = Dispatched(f, key).decoderRuns
  /\ lastLoad.caught = Dispatched(f, key).caught
  /\ key \notin {ExtSTL, ExtOBJ, Ext3MF} =>
        /\ lastLoad.decoderRuns = 0
        /\ ~lastLoad.caught
        /\ lastLoad.scaled
        /\ lastLoad.scale = <<1, 1>>
        /\ geometry = positionOnPrintBed(BoxGeometry(20, 20, 20))

C26_EstimatesOfCurrentSelection ==
  (~isCalculating /\ estimates # NoEstimates) =>
    /\ lastMeasure.file = file
    /\ lastMeasure.filament = filament

\* C27: isCalculating is true while a FileReader of the estimate effect is
\* pending.
C27_CalculatingWhileReading == readers # {} => isCalculating

\* the angle triple after a press of the button of `axis`
Pressed(r, axis) == [r EXCEPT ![axis] = @ + 1]

\* C28: a press of one button made right after a press of another button
\* displays the mesh that the two presses in the other order display: with
\* the angles as they were before the two presses, the later button first
\* and the earlier one second.
C28_PressOrderIrrelevant ==
  [][(/\ modelRotation' # modelRotation
      /\ geometry # NullGeometry
      /\ pressRun.axis # 0
      /\ pressRun'.axis # pressRun.axis)
     => LET earlier == pressRun.axis
            later == pressRun'.axis
            start == [modelRotation EXCEPT ![earlier] = @ - 1]
            swapped == Pressed(Pressed(start, later), earlier)
        IN  /\ modelRotation' = swapped
            /\ meshGeometry' = RotationEffect(geometry, swapped)]_vars

\* the y button was pressed right after the x button on a displayed mesh
\* for which turning the mesh on display about y gives another mesh than
\* the one now displayed
C28_Witness ==
  /\ modelRotation = <<1, 1, 0>>
  /\ pressRun.axis = 2
  /\ Len(pressRun.before) = 1
  /\ geometry # NullGeometry
  /\ geometry.pos # <<>>
  /\ pressRun.before[1] = RotationEffect(geometry, <<1, 0, 0>>)
  /\ meshGeometry # RotationEffect(pressRun.before[1], <<0, 1, 0>>)

\* the translation positionOnPrintBed applies to g: (-center.x, -min.y,
\* -center.z), as numerators over 2 * g.den
TranslationOf(g) ==
  LET box == computeBoundingBox(g)
  IN  << -(box.min[1] + box.max[1]), -(2 * box.min[2]), -(box.min[3] + box.max[3]) >>

\* C29: the scale-and-position step applied to a published non-empty mesh
\* computes scale 1 and the translation (0, 0, 0) and gives the same
\* vertices.
C29_NormalizeIdempotent ==
  (geometry # NullGeometry /\ geometry.pos # <<>>) =>
    LET again == ScaleAndPosition(geometry)
    IN  /\ again.scale = <<1, 1>>
        /\ TranslationOf(ScaleGeometry(geometry, again.scale)) = <<0, 0, 0>>
        /\ again.geometry = geometry
        /\ positionOnPrintBed(geometry) = geometry

\* a mesh that the load scaled down and moved is published
C29_Witness ==
  /\ lastLoad.file = 1
  /\ lastLoad.scaled
  /\ lastLoad.scale # <<1, 1>>
  /\ geometry # NullGeometry
  /\ Len(geometry.pos) = 12
  /\ geometry # MakeGeometry(parseSTL(Files[1].stl).pos)
  /\ TranslationOf(MakeGeometry(parseSTL(Files[1].stl).pos)) # <<0, 0, 0>>

\* what convert3MFToSTL returns for an archive, over its three awaits
Converted(archive) ==
  IF HasModelFile(archive) THEN convert3MFToSTL(archive)
  ELSE [null |-> TRUE, buffer |-> NoBuffer]

\* C30: the load of a 3MF file never reaches loadModel's catch block, and
\* what convert3MFToSTL returned to it is null (then no decoder ran) or a
\* buffer of 84 + 50 * n bytes whose count field is n and which holds n
\* records, n >= 1 being the number of triangle elements kept.
C30_NullOrWellFormedBuffer ==
  \A f \in Selected3MF :
    Ended(f) =>
      LET returned == Converted(Files[f].zip)
          n == InRangeCount(Files[f].zip)
      IN  /\ ~lastLoad.caught
          /\ returned.null = (lastLoad.decoderRuns = 0)
          /\ ~returned.null =>
                /\ n >= 1
                /\ returned.buffer.byteLength = 84 + 50 * n
                /\ returned.buffer.numTriangles = n
                /\ Len(returned.buffer.facets) = n
                /\ Len(geometry.pos) = 3 * n

\* the file on display is a model of which two of three triangle elements
\* were kept: a buffer of 84 + 2 * 50 bytes was returned and decoded
C30_Witness ==
  \E f \in Selected3MF :
    /\ Ended(f)
    /\ ~Converted(Files[f].zip).null
    /\ Len(Files[f].zip.triangle) = 3
    /\ Converted(Files[f].zip).buffer.byteLength = 184
    /\ lastLoad.decoderRuns = 1
====
